---- MODULE Spec2Model ----
(***************************************************************************)
(* Agent Orchestration Runtime: the control plane's run operations, the    *)
(* worker's task handler and the Start and Shutdown of both components     *)
(* (internal/aor/control_plane.go), over a run store (workflow_run and     *)
(* step_run rows) and a durable log (task, result and signal subjects).    *)
(***************************************************************************)
EXTENDS Integers, Sequences, FiniteSets, TLC

VARIABLES
    now,          \* wall clock read by time.Now() and by the task contexts
    faults,       \* whether the store and the log may fail transiently
    dag,          \* the workflow spec's nodes: type, policy, dependencies
    streams,      \* subject patterns bound to a stream of the log
    run,          \* workflow_run.status per run id ("missing": no row)
    step,         \* step_run rows: status, worker_id, started_at, ended_at,
                  \* lease_deadline
    deadline,     \* Task.DeadlineAt of the task message of each step (0: not enqueued)
    tmsg,         \* the log's delivery state of each message of the tasks subjects
    results,      \* TaskResults published on the results subject, not yet consumed
    signals,      \* runs with a cancel message on the signals subject, not yet consumed
    pc,           \* position of each handleTask invocation
    htask,        \* the message a handleTask invocation was given
    attempt,      \* executeTask's loop variable
    hres,         \* the TaskResult.Status handleTask holds
    hist,         \* executeTask so far: the executor's returns, how it returned, and
                  \* whether the run was still live (not canceled) when it was called
    cancelRet,    \* what the last CancelWorkflowRun call returned
    submitRet,    \* what the last SubmitWorkflow call returned
    worker,       \* the Worker of handler h1: running, shutdown channel, connections,
                  \* live subscriptions, outcome of its last Start that was not rejected
    cp            \* the ControlPlane: running, shutdown channel, connections, outcome
                  \* of its last Start that was not rejected

vars == <<now, faults, dag, streams, run, step, deadline, tmsg, results, signals,
          pc, htask, attempt, hres, hist, cancelRet, submitRet, worker, cp>>

----------------------------------------------------------------------------
(* Bounds of the model *)

MaxClock == 2

Runs == {"r1"}
Steps == {"s1"}
Handlers == {"h1", "h2"}

RunOf(s) == "r1"
StepsOf(r) == {s \in Steps : RunOf(s) = r}
WorkerOf(h) == IF h = "h1" THEN "w1" ELSE "w2"

----------------------------------------------------------------------------
(* Status values *)

RunStatusQueued == "queued"
RunStatusRunning == "running"
RunStatusSucceeded == "succeeded"
RunStatusFailed == "failed"
RunStatusCanceled == "canceled"

StepStatusPending == "pending"
StepStatusReady == "ready"
StepStatusRunning == "running"
StepStatusSucceeded == "succeeded"
StepStatusFailed == "failed"
StepStatusCanceled == "canceled"

TerminalStep(st) == st \in {StepStatusSucceeded, StepStatusFailed, StepStatusCanceled}
NonTerminalStep(st) == st \in {StepStatusPending, StepStatusReady, StepStatusRunning}

\* a step_run row's columns; "" and 0 stand for NULL
NoRow == [status |-> "missing", worker_id |-> "", started_at |-> 0, ended_at |-> 0,
          lease_deadline |-> 0]

----------------------------------------------------------------------------
(* The workflow specs a run may be submitted for *)

\* a node: type, policy.max_retries, policy.deadline, dependencies
Node(t, m, dl, d) == [type |-> t, maxRetries |-> m, deadline |-> dl, deps |-> d]

DagChoices ==
    { [s \in Steps |-> Node("function", 0, 1, {})],
      [s \in Steps |-> Node("llm", 2, 1, {})],
      [s \in Steps |-> Node("tool", 1, 1, {})],
      [s \in Steps |-> Node("custom", 0, 1, {})] }

\* NewWorker registers an executor for these node types
Executors == {"llm", "tool", "function"}

----------------------------------------------------------------------------
(* The durable log: subjects are token sequences, "*" matches one token *)

ResultsPublishSubject == <<"agentflow", "results">>
SignalsPublishSubject == <<"agentflow", "signals">>
HeartbeatsPublishSubject == <<"agentflow", "heartbeats">>

InitStreamsSubjects ==
    { <<"agentflow", "tasks", "*">>,
      <<"agentflow", "results", "*">>,
      <<"agentflow", "signals">> }

SubjectMatches(pattern, subject) ==
    /\ Len(pattern) = Len(subject)
    /\ \A i \in 1..Len(pattern) : pattern[i] = "*" \/ pattern[i] = subject[i]

SubjectBound(subject) == \E p \in streams : SubjectMatches(p, subject)

\* js.Publish succeeds when a stream takes the subject and the log answers
PublishOutcomes(subject) ==
    IF SubjectBound(subject) THEN (IF faults THEN {TRUE, FALSE} ELSE {TRUE}) ELSE {FALSE}

\* db.ExecContext fails when its context is done, and may fail transiently
CtxDone(h) == htask[h] \in Steps /\ deadline[htask[h]] <= now
ExecOutcomes(ctxDone) ==
    IF ctxDone THEN {FALSE} ELSE (IF faults THEN {TRUE, FALSE} ELSE {TRUE})
BackgroundExecOutcomes == IF faults THEN {TRUE, FALSE} ELSE {TRUE}

\* a call on a closed connection fails
OnConns(conns, outcomes) == IF conns = "open" THEN outcomes ELSE {FALSE}

----------------------------------------------------------------------------
(* Component lifecycle: running flag, shutdown channel, connections *)

\* NewWorker, NewControlPlane: not running, shutdown channel made, connections open
Constructed ==
    [running |-> FALSE, shutdown |-> "open", conns |-> "open", subs |-> 0,
     started |-> "none"]

\* after a Start that returned nil (a Worker holds its three subscriptions)
Started(n) ==
    [running |-> TRUE, shutdown |-> "open", conns |-> "open", subs |-> n,
     started |-> "ok"]

\* the three task subjects Worker.Start subscribes to
TaskSubscriptions == 3

\* the worker whose Start and Shutdown are modelled; any other worker stays started
LifecycleWorker == "w1"

Alive(h) == WorkerOf(h) # LifecycleWorker \/ worker.shutdown # "panic"
ConnsOpen(h) == WorkerOf(h) # LifecycleWorker \/ worker.conns = "open"
Subscribed(h) ==
    WorkerOf(h) # LifecycleWorker \/ (worker.subs > 0 /\ worker.conns = "open")

----------------------------------------------------------------------------

NoHist == [execs |-> <<>>, ret |-> "none", live |-> FALSE]

\* both components started, nothing submitted yet
Boot ==
    /\ now = 1
    /\ dag \in DagChoices
    /\ streams \in {InitStreamsSubjects, InitStreamsSubjects \cup {ResultsPublishSubject}}
    /\ run = [r \in Runs |-> "missing"]
    /\ step = [s \in Steps |-> NoRow]
    /\ deadline = [s \in Steps |-> 0]
    /\ tmsg = [s \in Steps |-> "none"]
    /\ results = {}
    /\ signals = {}
    /\ pc = [h \in Handlers |-> "idle"]
    /\ htask = [h \in Handlers |-> "none"]
    /\ attempt = [h \in Handlers |-> 0]
    /\ hres = [h \in Handlers |-> "none"]
    /\ hist = [h \in Handlers |-> NoHist]
    /\ cancelRet = "none"
    /\ submitRet = "none"
    /\ worker = Started(TaskSubscriptions)
    /\ cp = Started(0)

\* the store and the log may fail any call (or none)
Init == Boot /\ faults = TRUE

Tick ==
    /\ now < MaxClock
    /\ now' = now + 1
    /\ UNCHANGED <<faults, dag, streams, run, step, deadline, tmsg, results, signals,
                   pc, htask, attempt, hres, hist, cancelRet, submitRet, worker, cp>>

----------------------------------------------------------------------------
(* Scheduler (internal/aor, not among the sources): modelled from its contract *)

\* task.deadline_at = now + node.policy.deadline
Enqueue(dl, ready) ==
    [s \in Steps |-> IF s \in ready THEN now + dag[s].deadline ELSE dl[s]]

\* SubmitRun: a pending row per node, nodes without dependencies made ready
SubmitRunRows(r) ==
    [s \in Steps |->
        IF RunOf(s) = r
        THEN [NoRow EXCEPT !.status = IF dag[s].deps = {} THEN StepStatusReady
                                                          ELSE StepStatusPending]
        ELSE step[s]]

\* OnSignal(run, cancel): run and non-terminal steps to canceled
OnSignal(r) ==
    /\ cp.running /\ cp.conns = "open"
    /\ r \in signals
    /\ signals' = signals \ {r}
    /\ run' = [run EXCEPT ![r] = IF @ \in {RunStatusQueued, RunStatusRunning}
                                  THEN RunStatusCanceled ELSE @]
    /\ step' = [s \in Steps |->
                  IF RunOf(s) = r /\ NonTerminalStep(step[s].status)
                  THEN [step[s] EXCEPT !.status = StepStatusCanceled, !.ended_at = now]
                  ELSE step[s]]
    /\ UNCHANGED <<now, faults, dag, streams, deadline, tmsg, results,
                   pc, htask, attempt, hres, hist, cancelRet, submitRet, worker, cp>>

\* OnResult: conditional step update, newly ready successors, run outcome
OnResult(m) ==
    /\ cp.running /\ cp.conns = "open"
    /\ m \in results
    /\ results' = results \ {m}
    /\ LET r == RunOf(m.task)
           upd == [step EXCEPT ![m.task] =
                     IF @.status \in {StepStatusReady, StepStatusRunning}
                     THEN [@ EXCEPT !.status = m.status, !.ended_at = now]
                     ELSE @]
           ready == {s \in StepsOf(r) :
                        /\ upd[s].status = StepStatusPending
                        /\ \A d \in dag[s].deps : upd[d].status = StepStatusSucceeded}
           after == [s \in Steps |-> IF s \in ready
                                     THEN [upd[s] EXCEPT !.status = StepStatusReady]
                                     ELSE upd[s]]
       IN /\ step' = after
          /\ deadline' = Enqueue(deadline, ready)
          /\ tmsg' = [x \in Steps |-> IF x \in ready THEN "avail" ELSE tmsg[x]]
          /\ run' = [run EXCEPT ![r] =
                       IF @ \notin {RunStatusQueued, RunStatusRunning} THEN @
                       ELSE IF \E s \in StepsOf(r) : after[s].status = StepStatusFailed
                            THEN RunStatusFailed
                       ELSE IF \A s \in StepsOf(r) : after[s].status = StepStatusSucceeded
                            THEN RunStatusSucceeded
                       ELSE RunStatusRunning]
    /\ UNCHANGED <<now, faults, dag, streams, signals,
                   pc, htask, attempt, hres, hist, cancelRet, submitRet, worker, cp>>

----------------------------------------------------------------------------
(* ControlPlane *)

\* SubmitWorkflow: load the spec, insert the run as queued, hand it to the scheduler
SubmitWorkflow(r) ==
    /\ run[r] = "missing"
    /\ \E found \in OnConns(cp.conns, BOOLEAN),
          insertOk \in OnConns(cp.conns, BackgroundExecOutcomes),
          submitOk \in OnConns(cp.conns, BackgroundExecOutcomes) :
          /\ submitRet' = IF found /\ insertOk /\ submitOk THEN "ok" ELSE "err"
          /\ IF ~found \/ ~insertOk
             THEN UNCHANGED <<run, step, deadline, tmsg>>
             ELSE /\ run' = [run EXCEPT ![r] = RunStatusQueued]
                  /\ IF submitOk
                     THEN LET ready == {s \in StepsOf(r) : dag[s].deps = {}}
                          IN /\ step' = SubmitRunRows(r)
                             /\ deadline' = Enqueue(deadline, ready)
                             /\ tmsg' = [x \in Steps |-> IF x \in ready THEN "avail"
                                                                       ELSE tmsg[x]]
                     ELSE UNCHANGED <<step, deadline, tmsg>>
    /\ UNCHANGED <<now, faults, dag, streams, results, signals,
                   pc, htask, attempt, hres, hist, cancelRet, worker, cp>>

CancellableAnyStatus(st) == st # "missing"

\* UPDATE workflow_run ... WHERE id = $1 AND status IN ('queued', 'running')
Cancellable(st) == st \in {RunStatusQueued, RunStatusRunning}

CancelReturnsPublishError(affected, pubOk) == IF affected /\ pubOk THEN "ok" ELSE "err"

\* rowsAffected == 0 returns an error; a failed publish is logged and nil returned
CancelReturns(affected, pubOk) == IF affected THEN "ok" ELSE "err"

CancelWorkflowRun(r) ==
    /\ \E dbOk \in OnConns(cp.conns, BackgroundExecOutcomes),
          pubOk \in OnConns(cp.conns, PublishOutcomes(SignalsPublishSubject)) :
         LET affected == dbOk /\ Cancellable(run[r])
         IN /\ run' = IF affected THEN [run EXCEPT ![r] = RunStatusCanceled] ELSE run
            /\ signals' = IF affected /\ pubOk THEN signals \cup {r} ELSE signals
            /\ cancelRet' = CancelReturns(affected, pubOk)
    /\ UNCHANGED <<now, faults, dag, streams, step, deadline, tmsg, results,
                   pc, htask, attempt, hres, hist, submitRet, worker, cp>>

----------------------------------------------------------------------------
(* Worker *)

DefaultMaxRetries == 3

\* maxRetries := task.Node.Policy.MaxRetries; if maxRetries == 0 { maxRetries = 3 }
EffectiveMaxRetries(m) == IF m = 0 THEN DefaultMaxRetries ELSE m

LoopContinuesOffByOne(a, max) == a <= max + 1

\* for attempt := 1; attempt <= maxRetries; attempt++
LoopContinues(a, max) == a <= max

\* if attempt < maxRetries: back off before the next iteration
MoreAttempts(a, max) == a < max

\* UPDATE step_run SET status = $1, worker_id = $2, started_at = $3 WHERE id = $4
UpdateStepStatus(rows, s, status, workerID) ==
    [rows EXCEPT ![s] =
        IF @.status = "missing" THEN @
        ELSE [@ EXCEPT !.status = status, !.worker_id = workerID,
                       !.started_at = IF status = StepStatusRunning THEN now ELSE 0]]

\* UPDATE step_run SET status = $1, ended_at = $2, ... WHERE id = $7
UpdateStepWithResult(rows, s, status) ==
    [rows EXCEPT ![s] =
        IF @.status = "missing" THEN @
        ELSE [@ EXCEPT !.status = status, !.ended_at = now]]

\* msg.Nak(): the log redelivers; msg.Ack(): the log is done with the message
NakMsg(t, m) == [t EXCEPT ![m] = IF @ = "acked" THEN "acked" ELSE "avail"]
AckMsg(t, m) == [t EXCEPT ![m] = "acked"]

PublishOutcomeAckRegardless(pubOk) == "ack"

\* handleTask's last step: Nak when publishResult failed, Ack otherwise
PublishOutcome(pubOk) == IF pubOk THEN "ack" ELSE "nak"

Settle(t, m, outcome) == IF outcome = "ack" THEN AckMsg(t, m) ELSE NakMsg(t, m)

\* msg.Nak() and msg.Ack() of a handler: lost when its connection is closed, the
\* message then waits for the log's redelivery
NakBy(h, t, m) == IF ConnsOpen(h) THEN NakMsg(t, m) ELSE t
SettleBy(h, t, m, outcome) == IF ConnsOpen(h) THEN Settle(t, m, outcome) ELSE t

\* the log hands an available task message to a subscription's callback
Deliver(h, s) ==
    /\ Alive(h) /\ Subscribed(h)
    /\ pc[h] = "idle"
    /\ tmsg[s] = "avail"
    /\ tmsg' = [tmsg EXCEPT ![s] = "wait"]
    /\ pc' = [pc EXCEPT ![h] = "mark"]
    /\ htask' = [htask EXCEPT ![h] = s]
    /\ UNCHANGED <<now, faults, dag, streams, run, step, deadline, results, signals,
                   attempt, hres, hist, cancelRet, submitRet, worker, cp>>

\* handleTask on a message that does not unmarshal: Nak and return
DeliverUndecodable(h) ==
    /\ Alive(h) /\ Subscribed(h)
    /\ pc[h] = "idle"
    /\ UNCHANGED vars

\* the log's ack wait elapses for a delivered, unsettled message
Redeliver(s) ==
    /\ tmsg[s] = "wait"
    /\ tmsg' = [tmsg EXCEPT ![s] = "avail"]
    /\ UNCHANGED <<now, faults, dag, streams, run, step, deadline, results, signals,
                   pc, htask, attempt, hres, hist, cancelRet, submitRet, worker, cp>>

\* handleTask returns: its locals are gone
Return(h) ==
    /\ pc' = [pc EXCEPT ![h] = "idle"]
    /\ htask' = [htask EXCEPT ![h] = "none"]
    /\ attempt' = [attempt EXCEPT ![h] = 0]
    /\ hres' = [hres EXCEPT ![h] = "none"]
    /\ hist' = [hist EXCEPT ![h] = NoHist]

ErrorResultStatusSucceeded == StepStatusSucceeded

\* handleTask: result = &TaskResult{Status: StepStatusFailed, Error: err.Error()}
ErrorResultStatus == StepStatusFailed

\* handleTask: updateStepStatus(running), then executeTask's executor lookup
MarkRunning(h) ==
    /\ Alive(h)
    /\ pc[h] = "mark"
    /\ \E ok \in OnConns(IF ConnsOpen(h) THEN "open" ELSE "closed",
                         ExecOutcomes(CtxDone(h))) :
         IF ~ok
         THEN /\ tmsg' = NakBy(h, tmsg, htask[h])
              /\ Return(h)
              /\ step' = step
         ELSE /\ step' = UpdateStepStatus(step, htask[h], StepStatusRunning, WorkerOf(h))
              /\ IF dag[htask[h]].type \notin Executors
                 THEN /\ hres' = [hres EXCEPT ![h] = ErrorResultStatus]
                      /\ pc' = [pc EXCEPT ![h] = "write"]
                      /\ hist' = [hist EXCEPT ![h].ret = "noexec"]
                      /\ attempt' = attempt
                 ELSE IF LoopContinues(1, EffectiveMaxRetries(dag[htask[h]].maxRetries))
                 THEN /\ attempt' = [attempt EXCEPT ![h] = 1]
                      /\ pc' = [pc EXCEPT ![h] = "exec"]
                      /\ hist' = [hist EXCEPT ![h].live =
                                    run[RunOf(htask[h])] # RunStatusCanceled]
                      /\ hres' = hres
                 ELSE /\ hres' = [hres EXCEPT ![h] = ErrorResultStatus]
                      /\ pc' = [pc EXCEPT ![h] = "write"]
                      /\ hist' = [hist EXCEPT ![h].ret = "exhausted"]
                      /\ attempt' = attempt
              /\ UNCHANGED <<tmsg, htask>>
    /\ UNCHANGED <<now, faults, dag, streams, run, deadline, results, signals,
                   cancelRet, submitRet, worker, cp>>

\* what executor.Execute may return: a result with a terminal status, or an error
ExecutorReturns == {StepStatusSucceeded, StepStatusFailed, "err"}

\* executeTask: one executor.Execute call of the retry loop
Execute(h) ==
    /\ Alive(h)
    /\ pc[h] = "exec"
    /\ \E out \in ExecutorReturns :
         LET max == EffectiveMaxRetries(dag[htask[h]].maxRetries)
             log == Append(hist[h].execs, out)
         IN IF out # "err"
            THEN /\ hres' = [hres EXCEPT ![h] = out]
                 /\ pc' = [pc EXCEPT ![h] = "write"]
                 /\ hist' = [hist EXCEPT ![h] = [execs |-> log, ret |-> "ok", live |-> FALSE]]
                 /\ attempt' = attempt
            ELSE IF MoreAttempts(attempt[h], max)
            THEN /\ pc' = [pc EXCEPT ![h] = "backoff"]
                 /\ hist' = [hist EXCEPT ![h].execs = log]
                 /\ UNCHANGED <<hres, attempt>>
            ELSE IF LoopContinues(attempt[h] + 1, max)
            THEN /\ attempt' = [attempt EXCEPT ![h] = @ + 1]
                 /\ hist' = [hist EXCEPT ![h].execs = log]
                 /\ UNCHANGED <<hres, pc>>
            ELSE /\ hres' = [hres EXCEPT ![h] = ErrorResultStatus]
                 /\ pc' = [pc EXCEPT ![h] = "write"]
                 /\ hist' = [hist EXCEPT ![h] = [execs |-> log, ret |-> "exhausted", live |-> FALSE]]
                 /\ attempt' = attempt
    /\ UNCHANGED <<now, faults, dag, streams, run, step, deadline, tmsg, results, signals,
                   htask, cancelRet, submitRet, worker, cp>>

\* executeTask: select { case <-ctx.Done(): return ctx.Err(); case <-time.After(backoff) }
Backoff(h) ==
    /\ Alive(h)
    /\ pc[h] = "backoff"
    /\ \E branch \in (IF CtxDone(h) THEN {"done", "timer"} ELSE {"timer"}) :
         IF branch = "done"
         THEN /\ hres' = [hres EXCEPT ![h] = ErrorResultStatus]
              /\ pc' = [pc EXCEPT ![h] = "write"]
              /\ hist' = [hist EXCEPT ![h].ret = "ctx", ![h].live = FALSE]
              /\ attempt' = attempt
         ELSE IF LoopContinues(attempt[h] + 1,
                               EffectiveMaxRetries(dag[htask[h]].maxRetries))
         THEN /\ attempt' = [attempt EXCEPT ![h] = @ + 1]
              /\ pc' = [pc EXCEPT ![h] = "exec"]
              /\ UNCHANGED <<hres, hist>>
         ELSE /\ hres' = [hres EXCEPT ![h] = ErrorResultStatus]
              /\ pc' = [pc EXCEPT ![h] = "write"]
              /\ hist' = [hist EXCEPT ![h].ret = "exhausted", ![h].live = FALSE]
              /\ attempt' = attempt
    /\ UNCHANGED <<now, faults, dag, streams, run, step, deadline, tmsg, results, signals,
                   htask, cancelRet, submitRet, worker, cp>>

\* handleTask: updateStepWithResult
WriteResult(h) ==
    /\ Alive(h)
    /\ pc[h] = "write"
    /\ \E ok \in OnConns(IF ConnsOpen(h) THEN "open" ELSE "closed",
                         ExecOutcomes(CtxDone(h))) :
         IF ~ok
         THEN /\ tmsg' = NakBy(h, tmsg, htask[h])
              /\ Return(h)
              /\ step' = step
         ELSE /\ step' = UpdateStepWithResult(step, htask[h], hres[h])
              /\ pc' = [pc EXCEPT ![h] = "publish"]
              /\ attempt' = [attempt EXCEPT ![h] = 0]
              /\ hist' = [hist EXCEPT ![h] = NoHist]
              /\ UNCHANGED <<tmsg, htask, hres>>
    /\ UNCHANGED <<now, faults, dag, streams, run, deadline, results, signals,
                   cancelRet, submitRet, worker, cp>>

\* handleTask: publishResult, then Ack (Nak when the publish failed)
PublishResult(h) ==
    /\ Alive(h)
    /\ pc[h] = "publish"
    /\ \E ok \in OnConns(IF ConnsOpen(h) THEN "open" ELSE "closed",
                         PublishOutcomes(ResultsPublishSubject)) :
         /\ results' = IF ok THEN results \cup {[task |-> htask[h], status |-> hres[h]]}
                             ELSE results
         /\ tmsg' = SettleBy(h, tmsg, htask[h], PublishOutcome(ok))
         /\ Return(h)
    /\ UNCHANGED <<now, faults, dag, streams, run, step, deadline, signals,
                   cancelRet, submitRet, worker, cp>>

----------------------------------------------------------------------------

Next ==
    \/ Tick
    \/ \E r \in Runs : SubmitWorkflow(r)
    \/ \E r \in Runs : CancelWorkflowRun(r)
    \/ \E r \in Runs : OnSignal(r)
    \/ \E m \in results : OnResult(m)
    \/ \E h \in Handlers, s \in Steps : Deliver(h, s)
    \/ \E h \in Handlers : DeliverUndecodable(h)
    \/ \E s \in Steps : Redeliver(s)
    \/ \E h \in Handlers : MarkRunning(h)
    \/ \E h \in Handlers : Execute(h)
    \/ \E h \in Handlers : Backoff(h)
    \/ \E h \in Handlers : WriteResult(h)
    \/ \E h \in Handlers : PublishResult(h)

Spec == Init /\ [][Next]_vars

\* the store and the log answer every call (contexts still end, subjects may be unbound)
HealthyInit == Boot /\ faults = FALSE

HealthySpec == HealthyInit /\ [][Next]_vars

\* time passes, the log delivers, handlers and the scheduler's consumers keep running
Fairness ==
    /\ WF_vars(Tick)
    /\ \A r \in Runs : WF_vars(OnSignal(r))
    /\ WF_vars(\E m \in results : OnResult(m))
    /\ \A h \in Handlers :
         /\ WF_vars(\E s \in Steps : Deliver(h, s))
         /\ WF_vars(MarkRunning(h))
         /\ WF_vars(Execute(h))
         /\ WF_vars(Backoff(h))
         /\ WF_vars(WriteResult(h))
         /\ WF_vars(PublishResult(h))

FairSpec == HealthyInit /\ [][Next]_vars /\ Fairness

----------------------------------------------------------------------------
(* Start and Shutdown of the worker and of the control plane *)

\* close(ch): closing a closed channel panics
Close(ch) == IF ch = "open" THEN "closed" ELSE "panic"

\* how many of the js.Subscribe calls of Worker.Start succeed before it returns
SubscribeOutcomes(conns) ==
    IF conns # "open" THEN {0}
    ELSE IF faults THEN 0..TaskSubscriptions ELSE {TaskSubscriptions}

\* Worker.Start: rejected when running; else running = true, then the subscriptions
WorkerStart ==
    /\ worker.shutdown # "panic"
    /\ IF worker.running
       THEN worker' = worker
       ELSE \E n \in SubscribeOutcomes(worker.conns) :
              worker' = [worker EXCEPT !.running = TRUE, !.subs = n,
                            !.started = IF n = TaskSubscriptions THEN "ok" ELSE "err"]
    /\ UNCHANGED <<now, faults, dag, streams, run, step, deadline, tmsg, results, signals,
                   pc, htask, attempt, hres, hist, cancelRet, submitRet, cp>>

\* Worker.Shutdown: nil when not running; else close(w.shutdown), running = false,
\* close the connections
WorkerShutdown ==
    /\ worker.shutdown # "panic"
    /\ IF ~worker.running
       THEN worker' = worker
       ELSE IF Close(worker.shutdown) = "panic"
       THEN worker' = [worker EXCEPT !.shutdown = "panic"]
       ELSE worker' = [worker EXCEPT !.shutdown = Close(@), !.running = FALSE,
                                     !.conns = "closed", !.subs = 0]
    /\ UNCHANGED <<now, faults, dag, streams, run, step, deadline, tmsg, results, signals,
                   pc, htask, attempt, hres, hist, cancelRet, submitRet, cp>>

\* the stages of ControlPlane.Start: migrations, streams, scheduler, monitor
StartStages == 4

\* the stage at which ControlPlane.Start fails (0: none); closed connections fail
\* the migrations or, at the latest, the stream creation
StartFailures(conns) ==
    IF conns # "open" THEN {1, 2}
    ELSE IF faults THEN 0..StartStages ELSE {0}

\* the streams initStreams has created, in its order, when k AddStream calls succeeded
InitStreamsPrefix(k) ==
    IF k = 0 THEN {}
    ELSE IF k = 1 THEN {<<"agentflow", "tasks", "*">>}
    ELSE IF k = 2 THEN {<<"agentflow", "tasks", "*">>, <<"agentflow", "results", "*">>}
    ELSE InitStreamsSubjects

\* ControlPlane.Start: rejected when running; running = true only after all stages
ControlPlaneStart ==
    /\ cp.shutdown # "panic"
    /\ IF cp.running
       THEN UNCHANGED <<cp, streams>>
       ELSE \E failAt \in StartFailures(cp.conns) :
              /\ cp' = [cp EXCEPT !.running = (failAt = 0),
                                  !.started = IF failAt = 0 THEN "ok" ELSE "err"]
              /\ \E k \in (IF failAt = 1 \/ cp.conns # "open" THEN {0}
                            ELSE IF failAt = 2 THEN 0..2 ELSE {3}) :
                    streams' = streams \cup InitStreamsPrefix(k)
    /\ UNCHANGED <<now, faults, dag, run, step, deadline, tmsg, results, signals,
                   pc, htask, attempt, hres, hist, cancelRet, submitRet, worker>>

\* ControlPlane.Shutdown: nil when not running; else close(cp.shutdown), stop the
\* scheduler and the monitor, close the connections, running = false
ControlPlaneShutdown ==
    /\ cp.shutdown # "panic"
    /\ IF ~cp.running
       THEN cp' = cp
       ELSE IF Close(cp.shutdown) = "panic"
       THEN cp' = [cp EXCEPT !.shutdown = "panic"]
       ELSE cp' = [cp EXCEPT !.shutdown = Close(@), !.running = FALSE,
                             !.conns = "closed"]
    /\ UNCHANGED <<now, faults, dag, streams, run, step, deadline, tmsg, results, signals,
                   pc, htask, attempt, hres, hist, cancelRet, submitRet, worker>>

\* both components as constructed, over a log provisioned with the streams, one
\* workflow spec
LifecycleInit ==
    /\ now = 1
    /\ faults \in BOOLEAN
    /\ dag = [s \in Steps |-> Node("llm", 2, 1, {})]
    /\ streams = InitStreamsSubjects \cup {ResultsPublishSubject}
    /\ run = [r \in Runs |-> "missing"]
    /\ step = [s \in Steps |-> NoRow]
    /\ deadline = [s \in Steps |-> 0]
    /\ tmsg = [s \in Steps |-> "none"]
    /\ results = {}
    /\ signals = {}
    /\ pc = [h \in Handlers |-> "idle"]
    /\ htask = [h \in Handlers |-> "none"]
    /\ attempt = [h \in Handlers |-> 0]
    /\ hres = [h \in Handlers |-> "none"]
    /\ hist = [h \in Handlers |-> NoHist]
    /\ cancelRet = "none"
    /\ submitRet = "none"
    /\ worker = Constructed
    /\ cp = Constructed

\* the handlers that are callbacks of the worker whose lifecycle is modelled
LifecycleHandlers == {h \in Handlers : WorkerOf(h) = LifecycleWorker}

\* Start and Shutdown of both components around the run operations and the task
\* handling of the one worker
LifecycleNext ==
    \/ Tick
    \/ \E r \in Runs : SubmitWorkflow(r)
    \/ \E r \in Runs : CancelWorkflowRun(r)
    \/ \E r \in Runs : OnSignal(r)
    \/ \E m \in results : OnResult(m)
    \/ \E h \in LifecycleHandlers, s \in Steps : Deliver(h, s)
    \/ \E h \in LifecycleHandlers : DeliverUndecodable(h)
    \/ \E s \in Steps : Redeliver(s)
    \/ \E h \in LifecycleHandlers : MarkRunning(h)
    \/ \E h \in LifecycleHandlers : Execute(h)
    \/ \E h \in LifecycleHandlers : Backoff(h)
    \/ \E h \in LifecycleHandlers : WriteResult(h)
    \/ \E h \in LifecycleHandlers : PublishResult(h)
    \/ WorkerStart
    \/ WorkerShutdown
    \/ ControlPlaneStart
    \/ ControlPlaneShutdown

LifecycleSpec == LifecycleInit /\ [][LifecycleNext]_vars

----------------------------------------------------------------------------
(* Properties *)

Returns(h) == pc[h] # "idle" /\ pc'[h] = "idle"
NewlyAcked(s) == tmsg[s] # "acked" /\ tmsg'[s] = "acked"

\* C1: a handleTask invocation acks its message only from its last step, after its
\* result write succeeded and with its result published; an invocation that returns
\* after a failed mark-running write, result write or publish leaves the message
\* nak'ed (to be redelivered) and does not ack it.
C1_AckOnlyAfterWriteAndPublish ==
    [][\A h \in Handlers :
         Returns(h) =>
            LET s == htask[h]
                published == [task |-> s, status |-> hres[h]] \in results'
            IN /\ NewlyAcked(s) => (pc[h] = "publish" /\ published)
               /\ (pc[h] \in {"mark", "write"} \/ ~published) =>
                     (~NewlyAcked(s) /\ tmsg'[s] # "wait")]_vars

\* C1 witness: a task message has been acked
C1_Witness == \E s \in Steps : tmsg[s] = "acked"

\* C2: a handler given a task whose step row is not ready returns at once with the
\* message acked, the step row as it was and nothing published (the store being
\* reachable: its context has not ended).
C2_DuplicateDeliveryIsAckedUntouched ==
    [][\A h \in Handlers :
         (pc[h] = "mark" /\ pc'[h] # "mark" /\ ~CtxDone(h)
            /\ step[htask[h]].status # StepStatusReady) =>
               /\ pc'[h] = "idle"
               /\ step' = step
               /\ results' = results
               /\ tmsg'[htask[h]] = "acked"]_vars

\* C3: no step takes a step row from canceled to succeeded.
C3_NoSucceededOverCanceled ==
    [][\A s \in Steps :
         step[s].status = StepStatusCanceled => step'[s].status # StepStatusSucceeded]_vars

\* C4: a step row in a terminal status has ended_at set, and no step of a handler
\* changes its status, worker_id, started_at or ended_at.
C4_TerminalStepsAbsorbing ==
    [][\A s \in Steps :
         TerminalStep(step[s].status) =>
            /\ step[s].ended_at # 0
            /\ (\E h \in Handlers : pc'[h] # pc[h]) => step'[s] = step[s]]_vars

\* C5: CancelWorkflowRun changes a run's status only from queued or running, and only
\* to canceled, returning success; on a run that is missing or already succeeded,
\* failed or canceled it returns an error, changes no run and publishes no signal.
C5_CancelOnlyFromQueuedOrRunning ==
    [][\A r \in Runs :
         CancelWorkflowRun(r) =>
            /\ run'[r] # run[r] =>
                  (run[r] \in {"queued", "running"} /\ run'[r] = "canceled")
            /\ cancelRet' = "ok" =>
                  (run[r] \in {"queued", "running"} /\ run'[r] = "canceled")
            /\ run[r] \notin {"queued", "running"} =>
                  (cancelRet' = "err" /\ run' = run /\ signals' = signals)]_vars

\* C5 witness: a cancel of an already canceled run has returned an error
C5_Witness == \E r \in Runs : run[r] = "canceled" /\ cancelRet = "err" /\ r \notin signals

\* C6: the step that makes a run canceled leaves none of its step rows pending,
\* ready or running.
C6_CancelMarksLiveSteps ==
    [][\A r \in Runs :
         (run[r] # RunStatusCanceled /\ run'[r] = RunStatusCanceled) =>
            \A s \in StepsOf(r) : ~NonTerminalStep(step'[s].status)]_vars

\* C7: a handler that entered the retry loop while the run was live and is at a
\* retry boundary with the run now canceled starts no further executor attempt.
C7_NoAttemptAfterCancel ==
    [][\A h \in Handlers :
         (pc[h] = "backoff" /\ hist[h].live
            /\ run[RunOf(htask[h])] = RunStatusCanceled) =>
               pc'[h] # "exec"]_vars

Quiescent(r) ==
    \A s \in StepsOf(r) : step[s].status \notin {StepStatusRunning, StepStatusReady}

\* C8: a canceled run eventually has no step row in running or ready.
C8_CanceledRunQuiesces ==
    \A r \in Runs : (run[r] = RunStatusCanceled) ~> Quiescent(r)

\* the executor calls of one delivery: at most max_retries of them (3 for
\* max_retries 0), attempts numbered from 1, every call before the last returned an
\* error, and a return without error hands back the result of the last call
AttemptsWellFormed(h) ==
    LET e == hist[h].execs
        m == dag[htask[h]].maxRetries
        max == IF m = 0 THEN 3 ELSE m
    IN /\ Len(e) <= max
       /\ \A i \in 1..(Len(e) - 1) : e[i] = "err"
       /\ pc[h] = "exec" => (attempt[h] = Len(e) + 1 /\ attempt[h] \in 1..max)
       /\ pc[h] = "backoff" => (attempt[h] = Len(e) /\ e[Len(e)] = "err")
       /\ hist[h].ret = "ok" =>
             (Len(e) >= 1 /\ e[Len(e)] # "err" /\ hres[h] = e[Len(e)])

\* every one of the max_retries attempts failed, or the task context ended
AllFailedOrContextEnded(h) ==
    LET e == hist[h].execs
        m == dag[htask[h]].maxRetries
        max == IF m = 0 THEN 3 ELSE m
    IN /\ \A i \in 1..Len(e) : e[i] = "err"
       /\ Len(e) = max \/ CtxDone(h)

\* C9 (as stated): executeTask calls the executor at most max_retries times (3 for
\* max_retries 0), attempts numbered from 1, stops at the first call without error
\* and returns its result, and returns an error only when all max_retries attempts
\* failed or the task context ended.
C9_ErrorOnlyAfterAllAttemptsOrContextEnd ==
    \A h \in Handlers :
       htask[h] \in Steps =>
          /\ AttemptsWellFormed(h)
          /\ hist[h].ret \in {"exhausted", "ctx", "noexec"} => AllFailedOrContextEnded(h)

\* C9 (amended): as stated, except that executeTask also returns an error, without
\* calling any executor, when no executor is registered for the node type.
C9_BoundedRetries ==
    \A h \in Handlers :
       htask[h] \in Steps =>
          /\ AttemptsWellFormed(h)
          /\ hist[h].ret \in {"exhausted", "ctx"} => AllFailedOrContextEnded(h)
          /\ hist[h].ret = "noexec" =>
                (hist[h].execs = <<>> /\ dag[htask[h]].type \notin Executors)
          /\ dag[htask[h]].type \notin Executors => hist[h].execs = <<>>

\* C9 witness: with max_retries 0 the third executor call succeeded after two errors
C9_Witness ==
    \E h \in Handlers :
       /\ pc[h] = "write"
       /\ dag[htask[h]].maxRetries = 0
       /\ hist[h].ret = "ok"
       /\ hist[h].execs = <<"err", "err", StepStatusSucceeded>>

\* C10: when executeTask returns because the task context ended, the outcome
\* handleTask goes on to record is canceled.
C10_ContextEndRecordsCanceled ==
    \A h \in Handlers :
       (pc[h] = "write" /\ hist[h].ret = "ctx") => hres[h] = StepStatusCanceled

\* C11: a step row that a handler has moved to running eventually holds a terminal
\* status (succeeded, failed or canceled), whether the task's deadline passes during
\* execution or had passed at delivery.
C11_RunningStepGetsOutcome ==
    \A s \in Steps : (step[s].status = StepStatusRunning) ~> TerminalStep(step[s].status)


NoExecutor(h) == htask[h] \in Steps /\ dag[htask[h]].type \notin Executors

\* C12: a handler whose task's node type has no registered executor never calls an
\* executor; it holds a failed result carrying the no-executor error, writes failed
\* to the step row, then publishes that result, and acks only from there, with the
\* failed result published.
C12_NoExecutorFailsThenWritesPublishesAcks ==
    [][\A h \in Handlers :
         NoExecutor(h) =>
            /\ pc'[h] \notin {"exec", "backoff"} /\ hist'[h].execs = <<>>
            /\ (pc[h] = "mark" /\ pc'[h] = "write") =>
                  (hres'[h] = "failed" /\ hist'[h].ret = "noexec")
            /\ (pc[h] = "write" /\ pc'[h] = "publish") =>
                  (hres[h] = "failed" /\ step'[htask[h]].status = "failed")
            /\ pc'[h] = "publish" => (pc[h] \in {"write", "publish"} /\ hres'[h] = "failed")
            /\ (Returns(h) /\ NewlyAcked(htask[h])) =>
                  /\ pc[h] = "publish"
                  /\ [task |-> htask[h], status |-> "failed"] \in results']_vars

\* C12 witness: the message of a task without executor is acked, its row failed
C12_Witness ==
    \E s \in Steps :
       /\ dag[s].type \notin Executors
       /\ tmsg[s] = "acked"
       /\ step[s].status = StepStatusFailed


\* C13: a step row in running has a worker_id, and a lease_deadline that is set and
\* later than its started_at.
C13_RunningHasWorkerAndLease ==
    \A s \in Steps :
       step[s].status = StepStatusRunning =>
          /\ step[s].worker_id # ""
          /\ step[s].lease_deadline # 0
          /\ step[s].lease_deadline > step[s].started_at


\* C14: while one handler holds a step it has moved to running (its worker_id on the
\* row, its executor loop under way), a second handler given the same task neither
\* overwrites the row's worker_id nor starts the executor for it.
C14_OneHandlerDrivesAStep ==
    [][\A h, g \in Handlers :
         (/\ h # g
          /\ htask[h] \in Steps /\ htask[g] = htask[h]
          /\ pc[h] \in {"exec", "backoff"}
          /\ step[htask[h]].status = StepStatusRunning
          /\ step[htask[h]].worker_id = WorkerOf(h)
          /\ pc[g] = "mark") =>
             /\ step'[htask[h]].worker_id = WorkerOf(h)
             /\ pc'[g] # "exec"]_vars


\* C15: a SubmitWorkflow call that returns an error leaves no workflow_run row for
\* the run it was creating.
C15_FailedSubmitLeavesNoRun ==
    [][\A r \in Runs :
         (SubmitWorkflow(r) /\ submitRet' = "err") => run'[r] = "missing"]_vars


\* C17: the call that changes a run to canceled returns success whether or not its
\* cancel message was published (C17_Witness: it was not), and a canceled run stays
\* canceled.
C17_CancelSucceedsWithoutSignal ==
    [][\A r \in Runs :
         /\ (run[r] # RunStatusCanceled /\ run'[r] = RunStatusCanceled) =>
               cancelRet' = "ok"
         /\ run[r] = RunStatusCanceled => run'[r] = RunStatusCanceled]_vars

\* C17 witness: a cancel has returned success, the run is canceled, and no cancel
\* message was published: none is pending, and the step is still as submitted, which
\* a consumed cancel message would have changed
C17_Witness ==
    \E r \in Runs :
       /\ cancelRet = "ok"
       /\ run[r] = RunStatusCanceled
       /\ r \notin signals
       /\ \A s \in StepsOf(r) :
             step[s].status = StepStatusReady /\ step[s].worker_id = "" /\ tmsg[s] = "avail"


\* the subjects publishResult, sendHeartbeat and CancelWorkflowRun publish to
PublishSubjects == {ResultsPublishSubject, HeartbeatsPublishSubject, SignalsPublishSubject}

\* C20: where the log's streams are those initStreams creates, a handler that
\* publishes its result with a healthy log finds every subject the worker and the
\* control plane publish to taken by a stream, and leaves its message acked.
C20_PublishSubjectsAreBound ==
    [][\A h \in Handlers :
         (streams = InitStreamsSubjects /\ pc[h] = "publish" /\ Returns(h)) =>
            /\ \A subject \in PublishSubjects : SubjectBound(subject)
            /\ tmsg'[htask[h]] = "acked"]_vars


\* C16: Worker.Shutdown closes the connections only when none of the worker's task
\* handlers is in flight (no time passes inside Shutdown, so no grace period can have
\* elapsed); no handler makes its result write or its publish, and no delivery
\* starts, on closed connections.
C16_ShutdownWaitsForHandlers ==
    [][/\ (worker.conns = "open" /\ worker'.conns = "closed") =>
             \A h \in LifecycleHandlers : pc[h] = "idle"
       /\ \A h \in LifecycleHandlers :
             /\ (pc[h] \in {"write", "publish"} /\ pc'[h] # pc[h]) => worker.conns = "open"
             /\ (pc[h] = "idle" /\ pc'[h] = "mark") => worker.conns = "open"]_vars

\* C18: no Start or Shutdown call closes a shutdown channel that is already closed,
\* and a Shutdown of a component that is not running changes nothing.
C18_ShutdownChannelClosedOnce ==
    [][/\ worker'.shutdown # "panic"
       /\ cp'.shutdown # "panic"
       /\ (WorkerShutdown /\ ~worker.running) => worker' = worker
       /\ (ControlPlaneShutdown /\ ~cp.running) => cp' = cp]_vars

\* C19: a component's running flag is set only if its most recent Start that was not
\* rejected as already running returned success.
C19_RunningOnlyAfterSuccessfulStart ==
    /\ worker.running => worker.started = "ok"
    /\ cp.running => cp.started = "ok"

====
